---- MODULE Spec2Model ----
(***************************************************************************)
(* Typed transaction envelopes of ethers-core and their RLP encoders.      *)
(*                                                                         *)
(*   src/ethers-core/src/types/transaction/eip2718.rs  TypedTransaction    *)
(*   src/ethers-core/src/types/transaction/eip1559.rs  Eip1559Transaction- *)
(*                                                     Request             *)
(*   src/ethers-core/src/types/typed_transaction.rs    TransactionEnvelope,*)
(*        AccessListTransactionRequest, DynamicFeeTransactionRequest       *)
(*                                                                         *)
(* The state is one envelope value (tx) and the value returned by the last *)
(* call made on it (out).  Byte strings are sequences over 0..255, an      *)
(* Option<T> is <<>> (None) or <<x>> (Some(x)).                            *)
(***************************************************************************)
EXTENDS Naturals, Integers, Sequences, FiniteSets, TLC

VARIABLES tx, out

vars == <<tx, out>>

----------------------------------------------------------------------------
(* Option<T> *)

None == <<>>

Some(x) == <<x>>

IsSome(o) == o # <<>>

----------------------------------------------------------------------------
(* Bounds of the model *)

\* chain ids range over 1..MaxChainId
MaxChainId == 2

\* access lists hold at most MaxAccessListLen items
MaxAccessListLen == 2

----------------------------------------------------------------------------
(* The rlp crate: byte-level encoding (consumed primitive, spec section 4.2 *)
(* and 6: minimal big-endian integers, empty string for zero and for an     *)
(* absent value, list header in front of the concatenated items).           *)

RECURSIVE BigEndian(_)
\* minimal big-endian bytes of an unsigned integer; zero is the empty string
BigEndian(n) == IF n = 0 THEN <<>> ELSE Append(BigEndian(n \div 256), n % 256)

\* RLP of a byte string
EncodeValue(b) ==
    IF Len(b) = 1 /\ b[1] < 128 THEN b
    ELSE IF Len(b) <= 55 THEN <<128 + Len(b)>> \o b
    ELSE <<183 + Len(BigEndian(Len(b)))>> \o BigEndian(Len(b)) \o b

\* RLP of an unsigned integer (u8, u64, U64, U256)
EncodeUint(n) == EncodeValue(BigEndian(n))

\* rlp.append(&""): the empty-string marker 0x80
EmptyString == EncodeValue(<<>>)

RECURSIVE Concat(_)
Concat(items) == IF items = <<>> THEN <<>> ELSE Head(items) \o Concat(Tail(items))

\* header of a list whose payload is len bytes long
ListHeader(len) ==
    IF len <= 55 THEN <<192 + len>>
    ELSE <<247 + Len(BigEndian(len))>> \o BigEndian(len)

\* RLP of a list, given its already encoded items
EncodeList(items) == ListHeader(Len(Concat(items))) \o Concat(items)

\* rlp's Encodable for Option<T>: None is a list of no item, Some(x) a list
\* holding x as its one item (enc is the Option of the encoded inner value)
EncodeOption(enc) == IF IsSome(enc) THEN EncodeList(<<enc[1]>>) ELSE EncodeList(<<>>)

\* Address (H160) and H256 are fixed-width byte strings
AddressBytes(a) == [i \in 1..20 |-> IF i = 20 THEN a ELSE 0]

H256Bytes(k) == [i \in 1..32 |-> IF i = 1 THEN k ELSE 0]

\* the eight bytes of 2^64 + d for a small negative d: what a wrapping u64
\* subtraction leaves when the mathematical result is d
WrappedU64Bytes(d) ==
    LET m == (0 - d) - 1
    IN  [i \in 1..8 |-> IF i <= 4 THEN 255
                        ELSE 255 - ((m \div (256 ^ (8 - i))) % 256)]

----------------------------------------------------------------------------
(* RlpStream: a stream writing one list behind the bytes already in its    *)
(* buffer.  items are the encoded elements appended so far.                *)

new_with_buffer(buf) == [buf |-> buf, max |-> 0, items |-> <<>>, panicked |-> FALSE]

begin_list(rlp, n) == [rlp EXCEPT !.max = n]

\* what encoding a value that has no RLP form leaves in place of its bytes
Unencodable == <<0 - 1>>

\* appending past the declared length panics, and so does a value that
\* cannot be encoded
append(rlp, enc) ==
    IF rlp.panicked THEN rlp
    ELSE IF enc = Unencodable \/ Len(rlp.items) >= rlp.max
         THEN [rlp EXCEPT !.panicked = TRUE]
    ELSE [rlp EXCEPT !.items = Append(@, enc)]

\* the result of a call that panicked
Abort == [ok |-> FALSE, bytes |-> <<>>, items |-> <<>>]

\* RlpStream::out: the whole buffer; panics while the list is unfinished
stream_out(rlp) ==
    IF rlp.panicked \/ Len(rlp.items) # rlp.max THEN Abort
    ELSE [ok |-> TRUE, bytes |-> rlp.buf \o EncodeList(rlp.items), items |-> rlp.items]

----------------------------------------------------------------------------
(* Values of the fields *)

ChainIds == 1..MaxChainId

Address(a) == [tag |-> "Address", v |-> a]

EnsName == [tag |-> "Name", v |-> 0]

FromValues == {None, Some(1)}

ToValues == {None, Some(Address(2)), Some(EnsName)}

GasValues == {None, Some(100000)}

ValueValues == {None, Some(100)}

NonceValues == {None, Some(2)}

DataValues == {None, Some(<<85, 68>>)}

\* set_gas_price is called with NewGasPrice
NewGasPrice == Some(200)

GasPriceValues == {None, Some(7)}

PriorityFeeValues == {None, Some(1)}

MaxFeeValues == {None, Some(3)}

\* AccessListItem { address, storage_keys }
AccessListItems ==
    { [address |-> 1, storage_keys |-> <<1>>],
      [address |-> 2, storage_keys |-> <<>>] }

\* AccessList(Vec<AccessListItem>)
AccessLists ==
    UNION { [1..n -> AccessListItems] : n \in 0..MaxAccessListLen }

\* Signature { v, r, s }; v as a signer may hand it over: EIP-155 style for
\* one of the chain ids, the pre-EIP-155 27/28, or a bare parity
SignatureVs ==
    {0, 1, 27, 28} \cup { 2 * c + 35 + p : c \in ChainIds, p \in {0, 1} }

Signatures == { [v |-> v, r |-> 1000, s |-> 5] : v \in SignatureVs }

----------------------------------------------------------------------------
(* Field encoders *)

\* rlp::Encodable for &NameOrAddress: an address is its 20 bytes; an
\* unresolved name has no encoding
EncodeNameOrAddress(to) ==
    IF to.tag = "Address" THEN EncodeValue(AddressBytes(to.v)) ELSE Unencodable

\* an Option<U256> as the Option of its encoding
OptUint(o) == IF IsSome(o) THEN Some(EncodeUint(o[1])) ELSE None

\* self.to with an unresolved name taken for no recipient
OptTo_name_as_absent(o) ==
    IF IsSome(o) /\ o[1].tag = "Address" THEN Some(EncodeNameOrAddress(o[1])) ELSE None

\* self.to.as_ref()
OptTo(o) == IF IsSome(o) THEN Some(EncodeNameOrAddress(o[1])) ELSE None

\* self.data.as_ref().map(|d| d.as_ref())
OptData(o) == IF IsSome(o) THEN Some(EncodeValue(o[1])) ELSE None

\* #[derive(RlpEncodable)] struct AccessListItem: [address, [storage keys]]
EncodeAccessListItem(item) ==
    EncodeList(<<EncodeValue(AddressBytes(item.address)),
                 EncodeList([i \in 1..Len(item.storage_keys) |->
                               EncodeValue(H256Bytes(item.storage_keys[i]))])>>)

\* the list of the encoded items of an access list
EncodeItems(al) == EncodeList([i \in 1..Len(al) |-> EncodeAccessListItem(al[i])])

\* #[derive(RlpEncodable)] struct AccessList(Vec<AccessListItem>) of
\* typed_transaction.rs: the derive opens a list of the struct's fields, here
\* the one field, so the items' list is nested in a one-element list
typed_transaction_AccessList(al) == EncodeList(<<EncodeItems(al)>>)

\* eip2930::AccessList: the list of its items
eip2930_AccessList(al) == EncodeItems(al)

\* rlp_opt with an absent value written as an empty list
rlp_opt_absent_as_list(rlp, opt) ==
    IF IsSome(opt) THEN append(rlp, opt[1]) ELSE append(rlp, EncodeList(<<>>))

rlp_opt(rlp, opt) ==
    IF IsSome(opt) THEN append(rlp, opt[1]) ELSE append(rlp, EmptyString)

----------------------------------------------------------------------------
(* TransactionRequest (the legacy request): base fields nonce, gasPrice,   *)
(* gas, to, value, data; the unsigned list adds the chain id, when one is  *)
(* supplied, and two empty placeholders; the signed list adds v, r, s.     *)

\* the legacy signed and EIP-155 unsigned lists: six base fields and three
SIGNED_TX_FIELDS == 9

TransactionRequest_rlp_base(t, rlp) ==
    LET r1 == rlp_opt(rlp, OptUint(t.nonce))
        r2 == rlp_opt(r1, OptUint(t.gas_price))
        r3 == rlp_opt(r2, OptUint(t.gas))
        r4 == rlp_opt(r3, OptTo(t.to))
        r5 == rlp_opt(r4, OptUint(t.value))
    IN  rlp_opt(r5, OptData(t.data))

\* chain_id is an Option<U64>
TransactionRequest_unsigned(t, chain_id, buf) ==
    LET r0 == begin_list(new_with_buffer(buf), SIGNED_TX_FIELDS)
        r1 == TransactionRequest_rlp_base(t, r0)
        r2 == IF IsSome(chain_id) THEN append(r1, EncodeUint(chain_id[1])) ELSE r1
        r3 == append(r2, EncodeUint(0))
    IN  stream_out(append(r3, EncodeUint(0)))

TransactionRequest_rlp(t, chain_id) == TransactionRequest_unsigned(t, chain_id, <<>>)

TransactionRequest_rlp_with_buffer(t, chain_id, buf) ==
    TransactionRequest_unsigned(t, Some(chain_id), buf)

TransactionRequest_rlp_signed_with_buffer(t, signature, buf) ==
    LET r0 == begin_list(new_with_buffer(buf), SIGNED_TX_FIELDS)
        r1 == TransactionRequest_rlp_base(t, r0)
        r2 == append(r1, EncodeUint(signature.v))
        r3 == append(r2, EncodeUint(signature.r))
    IN  stream_out(append(r3, EncodeUint(signature.s)))

----------------------------------------------------------------------------
(* typed_transaction.rs: AccessListTransactionRequest *)

NUM_EIP2930_FIELDS == SIGNED_TX_FIELDS + 1

AccessListTransactionRequest_rlp(t, chain_id) ==
    LET r0 == begin_list(new_with_buffer(<<>>), NUM_EIP2930_FIELDS)
        r1 == TransactionRequest_rlp_base(t, r0)
        r2 == append(r1, typed_transaction_AccessList(t.access_list[1]))
        r3 == append(r2, EncodeUint(chain_id))
        r4 == append(r3, EncodeUint(0))
    IN  stream_out(append(r4, EncodeUint(0)))

AccessListTransactionRequest_rlp_signed(t, signature) ==
    LET r0 == begin_list(new_with_buffer(<<>>), NUM_EIP2930_FIELDS)
        r1 == TransactionRequest_rlp_base(t, r0)
        r2 == append(r1, typed_transaction_AccessList(t.access_list[1]))
        r3 == append(r2, EncodeUint(signature.v))
        r4 == append(r3, EncodeUint(signature.r))
    IN  stream_out(append(r4, EncodeUint(signature.s)))

----------------------------------------------------------------------------
(* typed_transaction.rs: DynamicFeeTransactionRequest *)

\* the nine fields both encoders append; chain_id is an Option<U64>
DynamicFeeTransactionRequest_fields(t, chain_id, rlp) ==
    LET r1 == append(rlp, EncodeUint(IF IsSome(chain_id) THEN chain_id[1] ELSE 0))
        r2 == rlp_opt(r1, OptUint(t.nonce))
        r3 == append(r2, EncodeUint(t.max_priority_fee_per_gas[1]))
        r4 == append(r3, EncodeUint(t.max_fee_per_gas[1]))
        r5 == rlp_opt(r4, OptUint(t.gas))
        r6 == rlp_opt(r5, OptTo(t.to))
        r7 == rlp_opt(r6, OptUint(t.value))
        r8 == rlp_opt(r7, OptData(t.data))
    IN  append(r8, typed_transaction_AccessList(t.access_list[1]))

\* rlp declaring three placeholders behind the nine fields it appends
DynamicFeeTransactionRequest_rlp_three_placeholders(t, chain_id) ==
    LET r0 == begin_list(new_with_buffer(<<>>), 9 + 3)
    IN  stream_out(DynamicFeeTransactionRequest_fields(t, chain_id, r0))

DynamicFeeTransactionRequest_rlp(t, chain_id) ==
    LET r0 == begin_list(new_with_buffer(<<>>), 9)
    IN  stream_out(DynamicFeeTransactionRequest_fields(t, chain_id, r0))

DynamicFeeTransactionRequest_rlp_signed(t, chain_id, signature) ==
    LET r0 == begin_list(new_with_buffer(<<>>), 9 + 3)
        r1 == DynamicFeeTransactionRequest_fields(t, chain_id, r0)
        r2 == append(r1, EncodeUint(signature.v))
        r3 == append(r2, EncodeUint(signature.r))
    IN  stream_out(append(r3, EncodeUint(signature.s)))

----------------------------------------------------------------------------
(* eip1559.rs: Eip1559TransactionRequest *)

\* EIP-1559 transactions have 9 fields
NUM_TX_FIELDS == 9

\* rlp_base writing the sender in the place of a recipient that is absent
Eip1559_rlp_base_from_for_to(t, rlp) ==
    LET r1 == append(rlp, EncodeUint(t.chain_id))
        r2 == rlp_opt(r1, OptUint(t.nonce))
        r3 == rlp_opt(r2, OptUint(t.max_priority_fee_per_gas))
        r4 == rlp_opt(r3, OptUint(t.max_fee_per_gas))
        r5 == rlp_opt(r4, OptUint(t.gas))
        r6 == rlp_opt(r5, IF IsSome(t.to) THEN OptTo(t.to)
                          ELSE IF IsSome(t.from)
                               THEN Some(EncodeValue(AddressBytes(t.from[1])))
                               ELSE None)
        r7 == rlp_opt(r6, OptUint(t.value))
        r8 == rlp_opt(r7, OptData(t.data))
    IN  append(r8, EncodeOption(IF IsSome(t.access_list)
                                THEN Some(eip2930_AccessList(t.access_list[1]))
                                ELSE None))

\* the access list is an Option<AccessList>, appended with rlp.append
Eip1559_rlp_base(t, rlp) ==
    LET r1 == append(rlp, EncodeUint(t.chain_id))
        r2 == rlp_opt(r1, OptUint(t.nonce))
        r3 == rlp_opt(r2, OptUint(t.max_priority_fee_per_gas))
        r4 == rlp_opt(r3, OptUint(t.max_fee_per_gas))
        r5 == rlp_opt(r4, OptUint(t.gas))
        r6 == rlp_opt(r5, OptTo(t.to))
        r7 == rlp_opt(r6, OptUint(t.value))
        r8 == rlp_opt(r7, OptData(t.data))
    IN  append(r8, EncodeOption(IF IsSome(t.access_list)
                                THEN Some(eip2930_AccessList(t.access_list[1]))
                                ELSE None))

\* rlp_with_buffer without its assertion
Eip1559_rlp_with_buffer_unchecked(t, chain_id, buf) ==
    stream_out(Eip1559_rlp_base(t, begin_list(new_with_buffer(buf), NUM_TX_FIELDS)))

\* assert_eq!(self.chain_id, chain_id.into())
Eip1559_rlp_with_buffer(t, chain_id, buf) ==
    IF t.chain_id # chain_id THEN Abort
    ELSE stream_out(Eip1559_rlp_base(t, begin_list(new_with_buffer(buf), NUM_TX_FIELDS)))

\* v = signature.v - chain_id * 2 - 35 in u64: a result below zero panics
\* in a build with overflow checks and wraps around in one without
Eip1559_rlp_signed_with_buffer(t, signature, buf, overflow_checks) ==
    LET r0 == begin_list(new_with_buffer(buf), NUM_TX_FIELDS + 3)
        r1 == Eip1559_rlp_base(t, r0)
        d  == signature.v - t.chain_id * 2 - 35
        v  == IF d < 0 THEN EncodeValue(WrappedU64Bytes(d)) ELSE EncodeUint(d)
        r2 == append(r1, v)
        r3 == append(r2, EncodeUint(signature.r))
    IN  IF d < 0 /\ overflow_checks THEN Abort
        ELSE stream_out(append(r3, EncodeUint(signature.s)))

----------------------------------------------------------------------------
(* eip2718.rs: TypedTransaction { Legacy, Eip2930, Eip1559 } *)

\* keccak256 is consumed as an opaque, collision-free function: a digest is
\* known by the bytes it was computed from
keccak256(bytes) == [preimage |-> bytes]

\* the getters: each forwards to the field of the active variant's request
\* (inner.from, inner.tx.from of an Eip2930 request)
TypedTransaction_from(t) == t.from

TypedTransaction_to(t) == t.to

TypedTransaction_nonce(t) == t.nonce

TypedTransaction_value(t) == t.value

TypedTransaction_gas(t) == t.gas

TypedTransaction_data(t) == t.data

set_from(t, from) == [t EXCEPT !.from = Some(from)]

set_to(t, to) == [t EXCEPT !.to = Some(to)]

set_nonce(t, nonce) == [t EXCEPT !.nonce = Some(nonce)]

\* set_value that also drops the call data
set_value_clearing_data(t, value) == [t EXCEPT !.value = Some(value), !.data = None]

set_value(t, value) == [t EXCEPT !.value = Some(value)]

set_gas(t, gas) == [t EXCEPT !.gas = Some(gas)]

\* set_gas_price leaving the priority fee of a dynamic-fee request alone
set_gas_price_max_fee_only(t, gas_price) ==
    IF t.variant = "Eip1559"
    THEN [t EXCEPT !.max_fee_per_gas = Some(gas_price)]
    ELSE [t EXCEPT !.gas_price = Some(gas_price)]

set_gas_price(t, gas_price) ==
    IF t.variant = "Eip1559"
    THEN [t EXCEPT !.max_fee_per_gas = Some(gas_price),
                   !.max_priority_fee_per_gas = Some(gas_price)]
    ELSE [t EXCEPT !.gas_price = Some(gas_price)]

set_data(t, data) == [t EXCEPT !.data = Some(data)]

\* Eip2930(inner) encodes inner.tx, the legacy request it wraps
encode_signed(t, signature, overflow_checks) ==
    CASE t.variant = "Legacy" ->
           TransactionRequest_rlp_signed_with_buffer(t, signature, <<0>>)
      [] t.variant = "Eip2930" ->
           TransactionRequest_rlp_signed_with_buffer(t, signature, <<1>>)
      [] t.variant = "Eip1559" ->
           Eip1559_rlp_signed_with_buffer(t, signature, <<2>>, overflow_checks)

encode_unsigned(t, chain_id) ==
    CASE t.variant = "Legacy" ->
           TransactionRequest_rlp_with_buffer(t, chain_id, <<0>>)
      [] t.variant = "Eip2930" ->
           TransactionRequest_rlp_with_buffer(t, chain_id, <<1>>)
      [] t.variant = "Eip1559" ->
           Eip1559_rlp_with_buffer(t, chain_id, <<2>>)

\* the digest of a call that returned, None of one that panicked
Digest(encoded) == IF encoded.ok THEN Some(keccak256(encoded.bytes)) ELSE None

\* sighash hashing the list without the type byte in front of it
sighash_of_list(t, chain_id) ==
    LET e == encode_unsigned(t, chain_id)
    IN  IF e.ok THEN Some(keccak256(Tail(e.bytes))) ELSE None

sighash(t, chain_id) == Digest(encode_unsigned(t, chain_id))

----------------------------------------------------------------------------
(* typed_transaction.rs: TransactionEnvelope { Legacy, AccessList,         *)
(* DynamicFee }                                                            *)

\* vec![type byte] followed by the request's rlp
Prefixed(byte, encoded) ==
    IF encoded.ok THEN [encoded EXCEPT !.bytes = <<byte>> \o @] ELSE Abort

\* the access-list arm taking a missing chain id for zero, as the
\* dynamic-fee encoder does
TransactionEnvelope_encoded_defaulting(t, chain_id) ==
    CASE t.variant = "Legacy" -> Prefixed(0, TransactionRequest_rlp(t, chain_id))
      [] t.variant = "AccessList" ->
           Prefixed(1, AccessListTransactionRequest_rlp(
                           t, IF IsSome(chain_id) THEN chain_id[1] ELSE 0))
      [] t.variant = "DynamicFee" ->
           Prefixed(2, DynamicFeeTransactionRequest_rlp(t, chain_id))

\* chain_id is an Option<U64>; the access-list arm expects it to be set
TransactionEnvelope_encoded(t, chain_id) ==
    CASE t.variant = "Legacy" -> Prefixed(0, TransactionRequest_rlp(t, chain_id))
      [] t.variant = "AccessList" ->
           IF IsSome(chain_id)
           THEN Prefixed(1, AccessListTransactionRequest_rlp(t, chain_id[1]))
           ELSE Abort
      [] t.variant = "DynamicFee" ->
           Prefixed(2, DynamicFeeTransactionRequest_rlp(t, chain_id))

TransactionEnvelope_sighash(t, chain_id) ==
    Digest(TransactionEnvelope_encoded(t, chain_id))

----------------------------------------------------------------------------
(* The values an envelope is constructed with *)

Request(env, variant, from, to, gas, value, data, nonce, gas_price, access_list, max_priority_fee_per_gas, max_fee_per_gas, chain_id) ==
    [env |-> env, variant |-> variant, from |-> from, to |-> to, gas |-> gas,
     value |-> value, data |-> data, nonce |-> nonce, gas_price |-> gas_price,
     access_list |-> access_list,
     max_priority_fee_per_gas |-> max_priority_fee_per_gas,
     max_fee_per_gas |-> max_fee_per_gas, chain_id |-> chain_id]

\* TransactionRequest: no access list, no fee fields, no stored chain id
LegacyRequests(env) ==
    { Request(env, "Legacy", f, t, g, v, d, n, gp, None, None, None, 0) :
        f \in FromValues, t \in ToValues, g \in GasValues, v \in ValueValues,
        d \in DataValues, n \in NonceValues, gp \in GasPriceValues }

\* { tx: TransactionRequest, access_list: AccessList }
AccessListRequests(env, variant) ==
    { [r EXCEPT !.variant = variant, !.access_list = Some(al)] :
        r \in LegacyRequests(env), al \in AccessLists }

\* DynamicFeeTransactionRequest: the fee fields and the access list are not
\* optional
DynamicFeeRequests ==
    { Request("TransactionEnvelope", "DynamicFee", f, t, g, v, d, n, None,
              Some(al), Some(mp), Some(3), 0) :
        f \in FromValues, t \in ToValues, g \in GasValues, v \in ValueValues,
        d \in DataValues, n \in NonceValues, al \in AccessLists, mp \in {0, 1} }

\* Eip1559TransactionRequest: optional fee fields and access list, a stored
\* chain id
Eip1559Requests ==
    { Request("TypedTransaction", "Eip1559", f, t, g, v, d, n, None, al, mp, mf, c) :
        f \in FromValues, t \in ToValues, g \in GasValues, v \in ValueValues,
        d \in DataValues, n \in NonceValues,
        al \in {None} \cup { Some(a) : a \in AccessLists },
        mp \in PriorityFeeValues, mf \in MaxFeeValues, c \in ChainIds }

TypedTransactions ==
    LegacyRequests("TypedTransaction")
      \cup AccessListRequests("TypedTransaction", "Eip2930")
      \cup Eip1559Requests

TransactionEnvelopes ==
    LegacyRequests("TransactionEnvelope")
      \cup AccessListRequests("TransactionEnvelope", "AccessList")
      \cup DynamicFeeRequests

----------------------------------------------------------------------------
(* serde_json: the derived Serialize / Deserialize of the envelopes and    *)
(* their requests.  A JSON string of hex digits is [hex |-> digits], any   *)
(* other string [text |-> s], an array a sequence, an object a function    *)
(* from its keys.                                                          *)

RECURSIVE Nibbles(_)
\* the hex digits of an unsigned integer, without leading zeros ("0x0")
Nibbles(n) == IF n < 16 THEN <<n>> ELSE Append(Nibbles(n \div 16), n % 16)

RECURSIVE FromNibbles(_)
FromNibbles(h) ==
    IF h = <<>> THEN 0 ELSE FromNibbles(SubSeq(h, 1, Len(h) - 1)) * 16 + h[Len(h)]

\* two hex digits a byte
HexOfBytes(b) ==
    [i \in 1..(2 * Len(b)) |->
        IF i % 2 = 1 THEN b[(i + 1) \div 2] \div 16 ELSE b[i \div 2] % 16]

BytesOfHex(h) == [i \in 1..(Len(h) \div 2) |-> h[2 * i - 1] * 16 + h[2 * i]]

\* U256 and U64
SerializeUint(n) == [hex |-> Nibbles(n)]

DeserializeUint(j) == FromNibbles(j.hex)

\* Bytes
SerializeBytes(b) == [hex |-> HexOfBytes(b)]

DeserializeBytes(j) == BytesOfHex(j.hex)

\* Address (H160)
SerializeAddress(a) == [hex |-> HexOfBytes(AddressBytes(a))]

DeserializeAddress(j) == BytesOfHex(j.hex)[20]

\* H256
SerializeH256(k) == [hex |-> HexOfBytes(H256Bytes(k))]

DeserializeH256(j) == BytesOfHex(j.hex)[1]

\* NameOrAddress: the address as its hex string, the name as it is
SerializeNameOrAddress(to) ==
    IF to.tag = "Address" THEN SerializeAddress(to.v) ELSE [text |-> "ens"]

DeserializeNameOrAddress(j) ==
    IF "hex" \in DOMAIN j THEN Address(DeserializeAddress(j)) ELSE EnsName

\* an Option mapped through f
OptMap(f(_), o) == IF IsSome(o) THEN Some(f(o[1])) ELSE None

\* a JSON object of the entries <<key, Option of the value>> whose value is
\* there (skip_serializing_if = "Option::is_none")
Object(entries) ==
    LET present == { i \in 1..Len(entries) : IsSome(entries[i][2]) }
    IN  [k \in { entries[i][1] : i \in present } |->
            entries[CHOOSE i \in present : entries[i][1] = k][2][1]]

\* the value under a key, None when the object has no such key
Field(obj, key) == IF key \in DOMAIN obj THEN Some(obj[key]) ELSE None

\* #[serde(rename_all = "camelCase")] struct AccessListItem
AccessListItem_serialize(item) ==
    Object(<< <<"address", Some(SerializeAddress(item.address))>>,
              <<"storageKeys", Some([i \in 1..Len(item.storage_keys) |->
                                        SerializeH256(item.storage_keys[i])])>> >>)

AccessListItem_deserialize(j) ==
    [address |-> DeserializeAddress(j["address"]),
     storage_keys |-> [i \in 1..Len(j["storageKeys"]) |->
                          DeserializeH256(j["storageKeys"][i])]]

\* struct AccessList(Vec<AccessListItem>): the array of its items
AccessList_serialize(al) == [i \in 1..Len(al) |-> AccessListItem_serialize(al[i])]

AccessList_deserialize(j) == [i \in 1..Len(j) |-> AccessListItem_deserialize(j[i])]

\* TransactionRequest: every field optional and left out when absent
TransactionRequest_entries(t) ==
    << <<"from", OptMap(SerializeAddress, t.from)>>,
       <<"to", OptMap(SerializeNameOrAddress, t.to)>>,
       <<"gas", OptMap(SerializeUint, t.gas)>>,
       <<"gasPrice", OptMap(SerializeUint, t.gas_price)>>,
       <<"value", OptMap(SerializeUint, t.value)>>,
       <<"data", OptMap(SerializeBytes, t.data)>>,
       <<"nonce", OptMap(SerializeUint, t.nonce)>> >>

\* Eip2930TransactionRequest { #[serde(flatten)] tx, access_list }
Eip2930TransactionRequest_entries(t) ==
    TransactionRequest_entries(t)
        \o << <<"accessList", OptMap(AccessList_serialize, t.access_list)>> >>

\* AccessListTransactionRequest { #[serde(flatten)] tx, access_list }: the
\* struct renames nothing
AccessListTransactionRequest_entries(t) ==
    TransactionRequest_entries(t)
        \o << <<"access_list", OptMap(AccessList_serialize, t.access_list)>> >>

\* DynamicFeeTransactionRequest: the struct renames nothing; the access list
\* and the two fees are always written
DynamicFeeTransactionRequest_entries(t) ==
    << <<"from", OptMap(SerializeAddress, t.from)>>,
       <<"to", OptMap(SerializeNameOrAddress, t.to)>>,
       <<"gas", OptMap(SerializeUint, t.gas)>>,
       <<"value", OptMap(SerializeUint, t.value)>>,
       <<"data", OptMap(SerializeBytes, t.data)>>,
       <<"nonce", OptMap(SerializeUint, t.nonce)>>,
       <<"access_list", OptMap(AccessList_serialize, t.access_list)>>,
       <<"max_priority_fee_per_gas", OptMap(SerializeUint, t.max_priority_fee_per_gas)>>,
       <<"max_fee_per_gas", OptMap(SerializeUint, t.max_fee_per_gas)>> >>

\* Eip1559TransactionRequest with chainId under #[serde(skip_serializing)]
Eip1559TransactionRequest_entries_skip_chain_id(t) ==
    << <<"from", OptMap(SerializeAddress, t.from)>>,
       <<"to", OptMap(SerializeNameOrAddress, t.to)>>,
       <<"gas", OptMap(SerializeUint, t.gas)>>,
       <<"value", OptMap(SerializeUint, t.value)>>,
       <<"data", OptMap(SerializeBytes, t.data)>>,
       <<"nonce", OptMap(SerializeUint, t.nonce)>>,
       <<"accessList", OptMap(AccessList_serialize, t.access_list)>>,
       <<"maxPriorityFeePerGas", OptMap(SerializeUint, t.max_priority_fee_per_gas)>>,
       <<"maxFeePerGas", OptMap(SerializeUint, t.max_fee_per_gas)>> >>

\* Eip1559TransactionRequest: chainId is always written
Eip1559TransactionRequest_entries(t) ==
    << <<"from", OptMap(SerializeAddress, t.from)>>,
       <<"to", OptMap(SerializeNameOrAddress, t.to)>>,
       <<"gas", OptMap(SerializeUint, t.gas)>>,
       <<"value", OptMap(SerializeUint, t.value)>>,
       <<"data", OptMap(SerializeBytes, t.data)>>,
       <<"nonce", OptMap(SerializeUint, t.nonce)>>,
       <<"accessList", OptMap(AccessList_serialize, t.access_list)>>,
       <<"maxPriorityFeePerGas", OptMap(SerializeUint, t.max_priority_fee_per_gas)>>,
       <<"maxFeePerGas", OptMap(SerializeUint, t.max_fee_per_gas)>>,
       <<"chainId", Some(SerializeUint(t.chain_id))>> >>

\* #[serde(rename = "0x00")], "0x01", "0x02"
Tag(variant) ==
    CASE variant = "Legacy" -> [text |-> "0x00"]
      [] variant \in {"Eip2930", "AccessList"} -> [text |-> "0x01"]
      [] variant \in {"Eip1559", "DynamicFee"} -> [text |-> "0x02"]

\* #[serde(tag = "type")]: the tag is one more key of the variant's object
to_string(t) ==
    Object(<< <<"type", Some(Tag(t.variant))>> >> \o
           (CASE t.variant = "Legacy" -> TransactionRequest_entries(t)
              [] t.variant = "Eip2930" -> Eip2930TransactionRequest_entries(t)
              [] t.variant = "AccessList" -> AccessListTransactionRequest_entries(t)
              [] t.variant = "DynamicFee" -> DynamicFeeTransactionRequest_entries(t)
              [] t.variant = "Eip1559" -> Eip1559TransactionRequest_entries(t)))

\* Result<T, serde_json::Error>
Ok(v) == [ok |-> TRUE, value |-> Some(v)]

Err == [ok |-> FALSE, value |-> None]

\* a field that is an Option: None when its key is missing
OptField(f(_), obj, key) == OptMap(f, Field(obj, key))

\* TransactionRequest, as the variant of an envelope: keys it does not know
\* (the tag among them) are passed over
TransactionRequest_deserialize(obj, env, variant) ==
    Request(env, variant,
            OptField(DeserializeAddress, obj, "from"),
            OptField(DeserializeNameOrAddress, obj, "to"),
            OptField(DeserializeUint, obj, "gas"),
            OptField(DeserializeUint, obj, "value"),
            OptField(DeserializeBytes, obj, "data"),
            OptField(DeserializeUint, obj, "nonce"),
            OptField(DeserializeUint, obj, "gasPrice"),
            None, None, None, 0)

\* Eip2930TransactionRequest: the access list is empty when its key is missing
Eip2930TransactionRequest_deserialize(obj, env, variant) ==
    Ok([TransactionRequest_deserialize(obj, env, variant) EXCEPT
          !.access_list = IF "accessList" \in DOMAIN obj
                          THEN Some(AccessList_deserialize(obj["accessList"]))
                          ELSE Some(<<>>)])

\* AccessListTransactionRequest: access_list has no default
AccessListTransactionRequest_deserialize(obj, env, variant) ==
    IF "access_list" \in DOMAIN obj
    THEN Ok([TransactionRequest_deserialize(obj, env, variant) EXCEPT
               !.access_list = Some(AccessList_deserialize(obj["access_list"]))])
    ELSE Err

\* DynamicFeeTransactionRequest: the access list and the fees have no default
DynamicFeeTransactionRequest_deserialize(obj, env, variant) ==
    IF {"access_list", "max_priority_fee_per_gas", "max_fee_per_gas"} \subseteq DOMAIN obj
    THEN Ok(Request(env, variant,
                    OptField(DeserializeAddress, obj, "from"),
                    OptField(DeserializeNameOrAddress, obj, "to"),
                    OptField(DeserializeUint, obj, "gas"),
                    OptField(DeserializeUint, obj, "value"),
                    OptField(DeserializeBytes, obj, "data"),
                    OptField(DeserializeUint, obj, "nonce"),
                    None,
                    Some(AccessList_deserialize(obj["access_list"])),
                    Some(DeserializeUint(obj["max_priority_fee_per_gas"])),
                    Some(DeserializeUint(obj["max_fee_per_gas"])),
                    0))
    ELSE Err

\* Eip1559TransactionRequest: chainId is U64::one() when its key is missing
Eip1559TransactionRequest_deserialize(obj, env, variant) ==
    Ok(Request(env, variant,
               OptField(DeserializeAddress, obj, "from"),
               OptField(DeserializeNameOrAddress, obj, "to"),
               OptField(DeserializeUint, obj, "gas"),
               OptField(DeserializeUint, obj, "value"),
               OptField(DeserializeBytes, obj, "data"),
               OptField(DeserializeUint, obj, "nonce"),
               None,
               OptField(AccessList_deserialize, obj, "accessList"),
               OptField(DeserializeUint, obj, "maxPriorityFeePerGas"),
               OptField(DeserializeUint, obj, "maxFeePerGas"),
               IF "chainId" \in DOMAIN obj THEN DeserializeUint(obj["chainId"]) ELSE 1))

\* serde_json::from_str as the bare request type of a variant; the value is
\* the request wrapped in that variant
from_str_request(obj, env, variant) ==
    CASE variant = "Legacy" -> Ok(TransactionRequest_deserialize(obj, env, variant))
      [] variant = "Eip2930" -> Eip2930TransactionRequest_deserialize(obj, env, variant)
      [] variant = "AccessList" ->
           AccessListTransactionRequest_deserialize(obj, env, variant)
      [] variant = "DynamicFee" ->
           DynamicFeeTransactionRequest_deserialize(obj, env, variant)
      [] variant = "Eip1559" -> Eip1559TransactionRequest_deserialize(obj, env, variant)

\* the variants of the two envelope types
VariantsOf(env) ==
    IF env = "TypedTransaction" THEN {"Legacy", "Eip2930", "Eip1559"}
    ELSE {"Legacy", "AccessList", "DynamicFee"}

\* serde_json::from_str as the envelope type: the tag selects the variant
from_str_envelope(obj, env) ==
    LET tagged == { v \in VariantsOf(env) : Field(obj, "type") = Some(Tag(v)) }
    IN  IF tagged = {} THEN Err
        ELSE from_str_request(obj, env, CHOOSE v \in tagged : TRUE)

----------------------------------------------------------------------------
(* The state machine *)

\* what the last call was given and what it returned
Returned(op, chain, sig, arg, encoded, hash) ==
    [op |-> op, chain |-> chain, sig |-> sig, arg |-> arg, ok |-> encoded.ok,
     bytes |-> encoded.bytes, items |-> encoded.items, hash |-> hash]

Unit == [ok |-> TRUE, bytes |-> <<>>, items |-> <<>>]

\* no call has been made, or the value the last one returned was dropped
Idle == Returned("none", None, None, None, Unit, None)

Init ==
    /\ tx \in TypedTransactions \cup TransactionEnvelopes
    /\ out = Idle

\* the caller of a TypedTransaction method, between two calls
CallTyped == out = Idle /\ tx.env = "TypedTransaction"

\* the caller of a typed_transaction.rs method, between two calls
CallEnvelope == out = Idle /\ tx.env = "TransactionEnvelope"

Setter(op, arg, t) ==
    /\ CallTyped
    /\ tx' = t
    /\ out' = Returned(op, None, None, Some(arg), Unit, None)

SetFrom == Setter("set_from", 1, set_from(tx, 1))

SetTo == \E to \in {Address(2), EnsName} : Setter("set_to", to, set_to(tx, to))

SetNonce == Setter("set_nonce", 2, set_nonce(tx, 2))

SetValue == Setter("set_value", 100, set_value(tx, 100))

SetGas == Setter("set_gas", 100000, set_gas(tx, 100000))

SetGasPrice ==
    Setter("set_gas_price", NewGasPrice[1], set_gas_price(tx, NewGasPrice[1]))

SetData == Setter("set_data", <<85, 68>>, set_data(tx, <<85, 68>>))

\* a getter is called between two calls, or right behind its setter
Getter(op, setter, value) ==
    /\ tx.env = "TypedTransaction"
    /\ out = Idle \/ out.op = setter
    /\ out' = Returned(op, None, None, value, Unit, None)
    /\ UNCHANGED tx

GetFrom == Getter("from", "set_from", TypedTransaction_from(tx))

GetTo == Getter("to", "set_to", TypedTransaction_to(tx))

GetNonce == Getter("nonce", "set_nonce", TypedTransaction_nonce(tx))

GetValue == Getter("value", "set_value", TypedTransaction_value(tx))

GetGas == Getter("gas", "set_gas", TypedTransaction_gas(tx))

GetData == Getter("data", "set_data", TypedTransaction_data(tx))

EncodeSigned ==
    /\ CallTyped
    /\ \E signature \in Signatures, overflow_checks \in BOOLEAN :
         out' = Returned("encode_signed", None, Some(signature), None,
                         encode_signed(tx, signature, overflow_checks), None)
    /\ UNCHANGED tx

EncodeUnsigned ==
    /\ CallTyped
    /\ \E chain_id \in ChainIds :
         out' = Returned("encode_unsigned", Some(chain_id), None, None,
                         encode_unsigned(tx, chain_id), None)
    /\ UNCHANGED tx

\* a digest, or the panic of the encoding it hashes
Hashed(op, chain, hash) ==
    Returned(op, chain, None, None, IF IsSome(hash) THEN Unit ELSE Abort, hash)

Sighash ==
    /\ CallTyped
    /\ \E chain_id \in ChainIds :
         out' = Hashed("sighash", Some(chain_id), sighash(tx, chain_id))
    /\ UNCHANGED tx

EnvelopeSighash ==
    /\ CallEnvelope
    /\ \E chain_id \in {None} \cup { Some(c) : c \in ChainIds } :
         out' = Hashed("TransactionEnvelope::sighash", chain_id,
                       TransactionEnvelope_sighash(tx, chain_id))
    /\ UNCHANGED tx

AccessListRlp ==
    /\ CallEnvelope /\ tx.variant = "AccessList"
    /\ \E chain_id \in ChainIds :
         out' = Returned("AccessListTransactionRequest::rlp", Some(chain_id), None,
                         None, AccessListTransactionRequest_rlp(tx, chain_id), None)
    /\ UNCHANGED tx

AccessListRlpSigned ==
    /\ CallEnvelope /\ tx.variant = "AccessList"
    /\ \E signature \in Signatures :
         out' = Returned("AccessListTransactionRequest::rlp_signed", None,
                         Some(signature), None,
                         AccessListTransactionRequest_rlp_signed(tx, signature), None)
    /\ UNCHANGED tx

DynamicFeeRlp ==
    /\ CallEnvelope /\ tx.variant = "DynamicFee"
    /\ \E chain_id \in {None} \cup { Some(c) : c \in ChainIds } :
         out' = Returned("DynamicFeeTransactionRequest::rlp", chain_id, None, None,
                         DynamicFeeTransactionRequest_rlp(tx, chain_id), None)
    /\ UNCHANGED tx

DynamicFeeRlpSigned ==
    /\ CallEnvelope /\ tx.variant = "DynamicFee"
    /\ \E chain_id \in { Some(c) : c \in ChainIds }, signature \in Signatures :
         out' = Returned("DynamicFeeTransactionRequest::rlp_signed", chain_id,
                         Some(signature), None,
                         DynamicFeeTransactionRequest_rlp_signed(tx, chain_id, signature),
                         None)
    /\ UNCHANGED tx

\* serde_json::to_string(&tx)
Serialize ==
    /\ out = Idle
    /\ out' = Returned("serde_json::to_string", None, None, Some(to_string(tx)),
                       Unit, None)
    /\ UNCHANGED tx

\* the value a from_str returns, or its error
Deserialized(op, result) ==
    Returned(op, None, None, result.value, IF result.ok THEN Unit ELSE Abort, None)

\* serde_json::from_str(&serialized) as the envelope type
FromStrEnvelope ==
    /\ out.op = "serde_json::to_string"
    /\ out' = Deserialized("serde_json::from_str::<envelope>",
                           from_str_envelope(out.arg[1], tx.env))
    /\ UNCHANGED tx

\* serde_json::from_str(&serialized) as the bare request type, wrapped again
FromStrRequest ==
    /\ out.op = "serde_json::to_string"
    /\ out' = Deserialized("serde_json::from_str::<request>",
                           from_str_request(out.arg[1], tx.env, tx.variant))
    /\ UNCHANGED tx

\* the caller is done with the value the last call returned
Drop ==
    /\ out # Idle
    /\ out' = Idle
    /\ UNCHANGED tx

Next ==
    \/ Drop
    \/ SetFrom
    \/ SetTo
    \/ SetNonce
    \/ SetValue
    \/ SetGas
    \/ SetGasPrice
    \/ SetData
    \/ EncodeSigned
    \/ EncodeUnsigned
    \/ Sighash
    \/ EnvelopeSighash
    \/ AccessListRlp
    \/ AccessListRlpSigned
    \/ DynamicFeeRlp
    \/ DynamicFeeRlpSigned
    \/ Serialize
    \/ FromStrEnvelope
    \/ FromStrRequest
    \/ GetFrom
    \/ GetTo
    \/ GetNonce
    \/ GetValue
    \/ GetGas
    \/ GetData

Spec == Init /\ [][Next]_vars

----------------------------------------------------------------------------
(* What the properties below are stated with *)

\* the discriminator byte of a variant
TypeByte(variant) ==
    CASE variant = "Legacy" -> 0
      [] variant \in {"Eip2930", "AccessList"} -> 1
      [] variant \in {"Eip1559", "DynamicFee"} -> 2

\* the element an optional field occupies: its encoding, or the empty string
Slot(enc) == IF IsSome(enc) THEN enc[1] ELSE EmptyString

\* the last call returned an encoding (bytes and the elements of its list)
ReturnedBytes(ops) == out.op \in ops /\ out.ok

TypedUnsigned == ReturnedBytes({"encode_unsigned"})

TypedSigned == ReturnedBytes({"encode_signed"})

\* the access list of t, empty when t holds none
ItemsOf(t) == IF IsSome(t.access_list) THEN t.access_list[1] ELSE <<>>

\* the list an access-list transaction encodes itself as (spec 4.2, 4.3):
\* the legacy base fields, the access list, then the three trailing fields
AccessListOwnList(t, trailing) ==
    LET r0 == begin_list(new_with_buffer(<<>>), 7 + Len(trailing))
        r1 == TransactionRequest_rlp_base(t, r0)
        r2 == append(r1, EncodeItems(ItemsOf(t)))
        r3 == append(r2, trailing[1])
        r4 == append(r3, trailing[2])
    IN  stream_out(append(r4, trailing[3]))

\* the variant's own unsigned list, written into an empty buffer
OwnUnsigned(t, chain_id) ==
    CASE t.variant = "Legacy" -> TransactionRequest_rlp_with_buffer(t, chain_id, <<>>)
      [] t.variant = "Eip2930" ->
           AccessListOwnList(t, <<EncodeUint(chain_id), EncodeUint(0), EncodeUint(0)>>)
      [] t.variant = "Eip1559" -> Eip1559_rlp_with_buffer(t, chain_id, <<>>)

\* the variant's own signed list, written into an empty buffer
OwnSigned(t, signature, overflow_checks) ==
    CASE t.variant = "Legacy" ->
           TransactionRequest_rlp_signed_with_buffer(t, signature, <<>>)
      [] t.variant = "Eip2930" ->
           AccessListOwnList(t, <<EncodeUint(signature.v), EncodeUint(signature.r),
                                  EncodeUint(signature.s)>>)
      [] t.variant = "Eip1559" ->
           Eip1559_rlp_signed_with_buffer(t, signature, <<>>, overflow_checks)

----------------------------------------------------------------------------
(* C1: every output of encode_unsigned and encode_signed is one            *)
(* discriminator byte (0x00 Legacy, 0x01 access-list, 0x02 dynamic-fee)    *)
(* followed by exactly the active variant's own RLP list.                  *)
C1_TypeByteThenOwnList ==
    /\ TypedUnsigned =>
          LET own == OwnUnsigned(tx, out.chain[1])
          IN  own.ok /\ out.bytes = <<TypeByte(tx.variant)>> \o own.bytes
    /\ TypedSigned =>
          \E oc \in BOOLEAN :
             LET own == OwnSigned(tx, out.sig[1], oc)
             IN  own.ok /\ out.bytes = <<TypeByte(tx.variant)>> \o own.bytes

\* where C1 fails: an Eip2930 envelope with a non-empty access list encoded
C1_Eip2930Encoded ==
    /\ TypedUnsigned
    /\ tx.variant = "Eip2930"
    /\ ItemsOf(tx) # <<>>

----------------------------------------------------------------------------
(* C2: in every dynamic-fee encoder (Eip1559TransactionRequest and         *)
(* DynamicFeeTransactionRequest, unsigned and signed) the first nine       *)
(* elements are chainId, nonce, maxPriorityFeePerGas, maxFeePerGas, gas,   *)
(* to, value, data, accessList, the ninth being the list of the            *)
(* [address, [storage keys]] items.                                        *)

DynamicFeeOps ==
    {"encode_unsigned", "encode_signed", "DynamicFeeTransactionRequest::rlp",
     "DynamicFeeTransactionRequest::rlp_signed"}

DynamicFeeEncoded ==
    ReturnedBytes(DynamicFeeOps) /\ tx.variant \in {"Eip1559", "DynamicFee"}

\* the chain id a dynamic-fee list starts with: the stored one, or the
\* argument of the typed_transaction.rs encoders (zero when None)
ChainIdOf(t, chain) ==
    IF t.variant = "Eip1559" THEN t.chain_id
    ELSE IF IsSome(chain) THEN chain[1] ELSE 0

DynamicFeeBase(t, chain) ==
    << EncodeUint(ChainIdOf(t, chain)),
       Slot(OptUint(t.nonce)),
       Slot(OptUint(t.max_priority_fee_per_gas)),
       Slot(OptUint(t.max_fee_per_gas)),
       Slot(OptUint(t.gas)),
       Slot(OptTo(t.to)),
       Slot(OptUint(t.value)),
       Slot(OptData(t.data)),
       EncodeItems(ItemsOf(t)) >>

C2_NineBaseFieldsInOrder ==
    DynamicFeeEncoded =>
        /\ Len(out.items) \in {9, 12}
        /\ SubSeq(out.items, 1, 9) = DynamicFeeBase(tx, out.chain)

\* where C2 fails: a dynamic-fee request holding an access list, encoded
C2_AccessListEncoded == DynamicFeeEncoded /\ IsSome(tx.access_list)

----------------------------------------------------------------------------
(* C3: every signed dynamic-fee encoder, given v = 2*c + 35 (or 2*c + 36)  *)
(* for the chain id c, puts 0 (or 1) in the tenth element, then r and s.   *)

DynamicFeeSigned ==
    /\ ReturnedBytes({"encode_signed", "DynamicFeeTransactionRequest::rlp_signed"})
    /\ tx.variant \in {"Eip1559", "DynamicFee"}

C3_ParityAppended ==
    DynamicFeeSigned =>
        \A parity \in {0, 1} :
            out.sig[1].v = 2 * ChainIdOf(tx, out.chain) + 35 + parity =>
                /\ Len(out.items) = 12
                /\ out.items[10] = EncodeUint(parity)
                /\ out.items[11] = EncodeUint(out.sig[1].r)
                /\ out.items[12] = EncodeUint(out.sig[1].s)

\* where C3 holds: Eip1559TransactionRequest reduces v
C3_Eip1559Parity ==
    (TypedSigned /\ tx.variant = "Eip1559") =>
        \A parity \in {0, 1} :
            out.sig[1].v = 2 * tx.chain_id + 35 + parity =>
                /\ out.items[10] = EncodeUint(parity)
                /\ out.items[11] = EncodeUint(out.sig[1].r)
                /\ out.items[12] = EncodeUint(out.sig[1].s)

----------------------------------------------------------------------------
(* C4: for every variant that carries an access list and every chain id,   *)
(* two transactions that differ only in the order of their access list's   *)
(* items have different unsigned encodings.                                *)

\* b holds the items of a, each as often, in another order
Reordered(a, b) ==
    /\ a # b
    /\ Len(a) = Len(b)
    /\ \A item \in AccessListItems :
          Cardinality({i \in 1..Len(a) : a[i] = item})
            = Cardinality({i \in 1..Len(b) : b[i] = item})

\* the unsigned encoding of t by the call op with the chain id chain
UnsignedBy(op, t, chain) ==
    CASE op = "encode_unsigned" -> encode_unsigned(t, chain[1])
      [] op = "AccessListTransactionRequest::rlp" ->
           AccessListTransactionRequest_rlp(t, chain[1])
      [] op = "DynamicFeeTransactionRequest::rlp" ->
           DynamicFeeTransactionRequest_rlp(t, chain)

UnsignedWithAccessList ==
    /\ ReturnedBytes({"encode_unsigned", "AccessListTransactionRequest::rlp",
                      "DynamicFeeTransactionRequest::rlp"})
    /\ IsSome(tx.access_list)

C4_AccessListOrderMatters ==
    UnsignedWithAccessList =>
        \A other \in AccessLists :
            Reordered(tx.access_list[1], other) =>
                LET e == UnsignedBy(out.op, [tx EXCEPT !.access_list = Some(other)],
                                    out.chain)
                IN  e.ok /\ e.bytes # out.bytes

\* the same, of the encoders other than the Eip2930 arm of encode_unsigned
C4_OrderMattersElsewhere ==
    (UnsignedWithAccessList /\ tx.variant # "Eip2930") =>
        \A other \in AccessLists :
            Reordered(tx.access_list[1], other) =>
                LET e == UnsignedBy(out.op, [tx EXCEPT !.access_list = Some(other)],
                                    out.chain)
                IN  e.ok /\ e.bytes # out.bytes

----------------------------------------------------------------------------
(* C5: for each variant the unsigned list has the same number of elements  *)
(* whichever optional fields are present, and every optional field keeps   *)
(* its position: present it is its encoding, absent it is one placeholder. *)

UnsignedOps ==
    {"encode_unsigned", "AccessListTransactionRequest::rlp",
     "DynamicFeeTransactionRequest::rlp"}

UnsignedEncoded == ReturnedBytes(UnsignedOps)

\* the number of elements of the unsigned list of a variant
UnsignedLength(variant) == IF variant = "AccessList" THEN 10 ELSE 9

\* the optional scalar fields of t, each with its position in the list
OptionalSlots(t) ==
    CASE t.variant \in {"Legacy", "Eip2930", "AccessList"} ->
           << <<1, OptUint(t.nonce)>>, <<2, OptUint(t.gas_price)>>,
              <<3, OptUint(t.gas)>>, <<4, OptTo(t.to)>>,
              <<5, OptUint(t.value)>>, <<6, OptData(t.data)>> >>
      [] t.variant = "Eip1559" ->
           << <<2, OptUint(t.nonce)>>, <<3, OptUint(t.max_priority_fee_per_gas)>>,
              <<4, OptUint(t.max_fee_per_gas)>>, <<5, OptUint(t.gas)>>,
              <<6, OptTo(t.to)>>, <<7, OptUint(t.value)>>, <<8, OptData(t.data)>> >>
      [] t.variant = "DynamicFee" ->
           << <<2, OptUint(t.nonce)>>, <<5, OptUint(t.gas)>>, <<6, OptTo(t.to)>>,
              <<7, OptUint(t.value)>>, <<8, OptData(t.data)>> >>

ScalarSlotsKept ==
    /\ Len(out.items) = UnsignedLength(tx.variant)
    /\ \A i \in 1..Len(OptionalSlots(tx)) :
          out.items[OptionalSlots(tx)[i][1]] = Slot(OptionalSlots(tx)[i][2])

\* an Eip1559TransactionRequest that holds no access list
AccessListAbsent == tx.variant = "Eip1559" /\ ~IsSome(tx.access_list)

----------------------------------------------------------------------------
(* C6: on a dynamic-fee envelope whose stored chain id differs from the    *)
(* argument, encode_unsigned and sighash abort and return nothing; when    *)
(* they return, the two chain ids are equal and the list starts with it.   *)

Eip1559ChainCall ==
    out.op \in {"encode_unsigned", "sighash"} /\ tx.variant = "Eip1559"

C6_ChainIdMismatchAborts ==
    Eip1559ChainCall =>
        /\ out.chain[1] # tx.chain_id =>
              ~out.ok /\ out.bytes = <<>> /\ out.hash = None
        /\ out.ok => out.chain[1] = tx.chain_id
        /\ (out.ok /\ out.op = "encode_unsigned") =>
              out.items[1] = EncodeUint(out.chain[1])

\* a call with another chain id than the stored one, aborted
C6_MismatchAborted ==
    /\ Eip1559ChainCall
    /\ out.chain[1] # tx.chain_id
    /\ ~out.ok
    /\ tx.to # Some(EnsName)

----------------------------------------------------------------------------
(* C7: sighash(chain_id) is the hash of exactly the bytes encode_unsigned  *)
(* returns for it, the type byte followed by the unsigned list, and fails  *)
(* exactly when encode_unsigned fails; TransactionEnvelope::sighash hashes *)
(* the type byte followed by the unsigned list of its variant.             *)

\* the unsigned list TransactionEnvelope::sighash hashes behind the type byte
EnvelopeUnsigned(t, chain) ==
    CASE t.variant = "Legacy" -> TransactionRequest_rlp(t, chain)
      [] t.variant = "AccessList" ->
           IF IsSome(chain) THEN AccessListTransactionRequest_rlp(t, chain[1]) ELSE Abort
      [] t.variant = "DynamicFee" -> DynamicFeeTransactionRequest_rlp(t, chain)

C7_SighashOfUnsigned ==
    /\ out.op = "sighash" =>
          LET e == encode_unsigned(tx, out.chain[1])
          IN  /\ out.ok = e.ok
              /\ e.ok => /\ out.hash = Some(keccak256(e.bytes))
                         /\ e.bytes[1] = TypeByte(tx.variant)
              /\ ~e.ok => out.hash = None
    /\ out.op = "TransactionEnvelope::sighash" =>
          LET e == EnvelopeUnsigned(tx, out.chain)
          IN  /\ out.ok = e.ok
              /\ e.ok => out.hash = Some(keccak256(<<TypeByte(tx.variant)>> \o e.bytes))
              /\ ~e.ok => out.hash = None

\* a signing hash returned by TypedTransaction::sighash
C7_Hashed == out.op = "sighash" /\ out.ok /\ IsSome(out.hash)

----------------------------------------------------------------------------
(* C8: set_gas_price(p) sets max_fee_per_gas and max_priority_fee_per_gas  *)
(* of a dynamic-fee envelope to Some(p), and gas_price of a legacy or      *)
(* access-list envelope to Some(p).                                        *)
C8_SetGasPrice ==
    out.op = "set_gas_price" =>
        IF tx.variant = "Eip1559"
        THEN /\ tx.max_fee_per_gas = out.arg
             /\ tx.max_priority_fee_per_gas = out.arg
        ELSE tx.gas_price = out.arg

\* set_gas_price has returned on a dynamic-fee envelope
C8_GasPriceSet ==
    /\ out.op = "set_gas_price"
    /\ tx.variant = "Eip1559"
    /\ tx.max_fee_per_gas = NewGasPrice

----------------------------------------------------------------------------
(* C9: TransactionEnvelope::sighash of an access-list envelope aborts      *)
(* without a chain id; with one it is the hash of 0x01 followed by the     *)
(* unsigned access-list RLP.                                               *)

AccessListSighash ==
    out.op = "TransactionEnvelope::sighash" /\ tx.variant = "AccessList"

C9_AccessListNeedsChainId ==
    AccessListSighash =>
        IF IsSome(out.chain)
        THEN LET e == AccessListTransactionRequest_rlp(tx, out.chain[1])
             IN  e.ok => out.ok /\ out.hash = Some(keccak256(<<1>> \o e.bytes))
        ELSE ~out.ok /\ out.hash = None

\* the signing hash of an access-list envelope asked for without a chain id
C9_NoChainIdAborted ==
    /\ AccessListSighash
    /\ out.chain = None
    /\ ~out.ok
    /\ tx.to # Some(EnsName)

----------------------------------------------------------------------------
(* C10: while `to` holds an unresolved name every encode entry point       *)
(* (unsigned, signed, sighash) aborts: it returns no bytes and no hash.    *)

EncodeOps ==
    {"encode_unsigned", "encode_signed", "sighash", "TransactionEnvelope::sighash",
     "AccessListTransactionRequest::rlp", "AccessListTransactionRequest::rlp_signed",
     "DynamicFeeTransactionRequest::rlp", "DynamicFeeTransactionRequest::rlp_signed"}

----------------------------------------------------------------------------
(* C11: `from` is never RLP-encoded: two transactions of any variant that  *)
(* differ only in `from` have the same unsigned encoding, the same signed  *)
(* encoding for the same signature, and the same signing hash.             *)

\* what a call returned: whether it returned, its bytes, its hash
Outcome(ok, bytes, hash) == [ok |-> ok, bytes |-> bytes, hash |-> hash]

OfEncoded(encoded) == Outcome(encoded.ok, encoded.bytes, None)

OfHash(hash) == Outcome(IsSome(hash), <<>>, hash)

\* what the call recorded in out returns when it is made on envelope t
Recall(t, overflow_checks) ==
    CASE out.op = "encode_unsigned" -> OfEncoded(encode_unsigned(t, out.chain[1]))
      [] out.op = "encode_signed" ->
           OfEncoded(encode_signed(t, out.sig[1], overflow_checks))
      [] out.op = "sighash" -> OfHash(sighash(t, out.chain[1]))
      [] out.op = "TransactionEnvelope::sighash" ->
           OfHash(TransactionEnvelope_sighash(t, out.chain))
      [] out.op = "AccessListTransactionRequest::rlp" ->
           OfEncoded(AccessListTransactionRequest_rlp(t, out.chain[1]))
      [] out.op = "AccessListTransactionRequest::rlp_signed" ->
           OfEncoded(AccessListTransactionRequest_rlp_signed(t, out.sig[1]))
      [] out.op = "DynamicFeeTransactionRequest::rlp" ->
           OfEncoded(DynamicFeeTransactionRequest_rlp(t, out.chain))
      [] out.op = "DynamicFeeTransactionRequest::rlp_signed" ->
           OfEncoded(DynamicFeeTransactionRequest_rlp_signed(t, out.chain, out.sig[1]))

\* the senders compared: none, the one of FromValues, and another address
Senders == FromValues \cup {Some(2)}

C11_FromNeverEncoded ==
    out.op \in EncodeOps =>
        \E overflow_checks \in BOOLEAN :
            LET returned == Recall(tx, overflow_checks)
            IN  /\ Outcome(out.ok, out.bytes, out.hash) = returned
                /\ \A from \in Senders \ {tx.from} :
                     Recall([tx EXCEPT !.from = from], overflow_checks) = returned

\* a signed encoding returned for a dynamic-fee envelope that has a sender
C11_SenderSetEncoded ==
    /\ out.op = "encode_signed"
    /\ out.ok
    /\ tx.variant = "Eip1559"
    /\ tx.from = Some(1)
    /\ tx.to = None

----------------------------------------------------------------------------
(* C12: the JSON of an envelope carries "type" = "0x00" / "0x01" / "0x02"; *)
(* read back as the envelope type it is an equal envelope, and read back   *)
(* as the bare request type of its variant and wrapped again in that       *)
(* variant it equals the original envelope.                                *)
C12_JsonRoundTrip ==
    /\ out.op = "serde_json::to_string" =>
           /\ Field(out.arg[1], "type") = Some(Tag(tx.variant))
           /\ Tag(tx.variant).text
                = (CASE TypeByte(tx.variant) = 0 -> "0x00"
                     [] TypeByte(tx.variant) = 1 -> "0x01"
                     [] TypeByte(tx.variant) = 2 -> "0x02")
    /\ out.op \in {"serde_json::from_str::<envelope>", "serde_json::from_str::<request>"} =>
           out.ok /\ out.arg = Some(tx)

\* an access-list envelope with no optional field read back as its request
C12_RequestReadBack ==
    /\ out.op = "serde_json::from_str::<request>"
    /\ out.ok
    /\ tx.variant = "AccessList"
    /\ tx.to = None /\ tx.nonce = None
    /\ Len(tx.access_list[1]) = 2

----------------------------------------------------------------------------
(* C13: every encoder returns a list of as many elements as it declared.   *)
(* As claimed, that is the base field count plus three for every entry     *)
(* point; in the code it is base plus three for the legacy and access-list *)
(* requests (chain id and two empty placeholders, or v, r, s) and for the  *)
(* signed dynamic-fee list (9 + 3), and the bare base count 9 for the      *)
(* unsigned dynamic-fee list, which has no placeholders.                   *)

\* the entry points that return a list
ListOps == EncodeOps \ {"sighash", "TransactionEnvelope::sighash"}

SignedOps ==
    {"encode_signed", "AccessListTransactionRequest::rlp_signed",
     "DynamicFeeTransactionRequest::rlp_signed"}

\* the base fields of a variant (spec 4.2)
BaseFieldCount(variant) ==
    CASE variant = "Legacy" -> 6
      [] variant \in {"Eip2930", "AccessList"} -> 7
      [] variant \in {"Eip1559", "DynamicFee"} -> 9

\* the declared length of the list the last call wrote
DeclaredLength ==
    IF tx.variant \in {"Eip1559", "DynamicFee"} /\ out.op \notin SignedOps
    THEN BaseFieldCount(tx.variant)
    ELSE BaseFieldCount(tx.variant) + 3

\* what makes an encoder abort other than its list's arity
AbortsOtherwise ==
    \/ tx.to = Some(EnsName)
    \/ /\ tx.variant = "Eip1559"
       /\ \/ out.op = "encode_unsigned" /\ out.chain # Some(tx.chain_id)
          \/ out.op = "encode_signed" /\ out.sig[1].v < 2 * tx.chain_id + 35

\* the three elements behind the base fields
TrailingFields ==
    LET n == Len(out.items)
    IN  IF out.op \in SignedOps
        THEN /\ out.items[n - 1] = EncodeUint(out.sig[1].r)
             /\ out.items[n] = EncodeUint(out.sig[1].s)
        ELSE tx.variant \in {"Legacy", "AccessList"} =>
                 /\ out.items[n - 2] = EncodeUint(out.chain[1])
                 /\ out.items[n - 1] = EmptyString
                 /\ out.items[n] = EmptyString

----------------------------------------------------------------------------
(* C14: encode_signed of a dynamic-fee envelope appends a v of 0 or 1 for  *)
(* every stored chain id and every signature v (27 or 28, 0 or 1, or a v   *)
(* computed for another chain id among them), and v - chain_id * 2 - 35    *)
(* never leaves the range of a u64: the call always returns.               *)

\* encode_signed was called on a dynamic-fee envelope whose `to` can be encoded
Eip1559SignedCall ==
    out.op = "encode_signed" /\ tx.variant = "Eip1559" /\ tx.to # Some(EnsName)

C14_ParityWithoutOverflow ==
    Eip1559SignedCall =>
        /\ out.ok
        /\ out.items[NUM_TX_FIELDS + 1] \in {EncodeUint(0), EncodeUint(1)}

\* a pre-EIP-155 v: the subtraction went below zero and the call panicked
C14_Underflowed ==
    /\ Eip1559SignedCall
    /\ out.sig[1].v = 27
    /\ ~out.ok

\* the same v in a build without overflow checks: eight wrapped bytes
C14_Wrapped ==
    /\ Eip1559SignedCall
    /\ out.sig[1].v = 27
    /\ out.ok
    /\ Len(out.items[NUM_TX_FIELDS + 1]) = 9

----------------------------------------------------------------------------
(* C15: no call changes the variant an envelope was built as; a setter     *)
(* stores its argument in its target field (set_gas_price: the fee field   *)
(* or fields of the variant) and leaves every other field, the access list *)
(* and the chain id among them, as it was; the getter called next returns  *)
(* the value just set.                                                     *)

\* the fields a setter writes
TargetFields(op, variant) ==
    CASE op = "set_from" -> {"from"}
      [] op = "set_to" -> {"to"}
      [] op = "set_nonce" -> {"nonce"}
      [] op = "set_value" -> {"value"}
      [] op = "set_gas" -> {"gas"}
      [] op = "set_data" -> {"data"}
      [] op = "set_gas_price" ->
           IF variant = "Eip1559" THEN {"max_fee_per_gas", "max_priority_fee_per_gas"}
           ELSE {"gas_price"}

SetterOps ==
    {"set_from", "set_to", "set_nonce", "set_value", "set_gas", "set_data",
     "set_gas_price"}

\* the getter of the field a setter writes (set_gas_price has none)
GetterOf(op) ==
    CASE op = "set_from" -> "from"
      [] op = "set_to" -> "to"
      [] op = "set_nonce" -> "nonce"
      [] op = "set_value" -> "value"
      [] op = "set_gas" -> "gas"
      [] op = "set_data" -> "data"

\* one step of the envelope
FrameKept ==
    /\ tx'.variant = tx.variant
    /\ tx'.env = tx.env
    /\ IF out'.op \in SetterOps /\ out.op \notin SetterOps
       THEN \A field \in DOMAIN tx :
                IF field \in TargetFields(out'.op, tx.variant)
                THEN tx'[field] = out'.arg
                ELSE tx'[field] = tx[field]
       ELSE tx' = tx
    /\ (out.op \in SetterOps \ {"set_gas_price"} /\ out'.op = GetterOf(out.op)) =>
           out'.arg = out.arg

C15_SettersKeepFrame == [][FrameKept]_vars

\* set_value has returned on a dynamic-fee envelope that holds call data,
\* an access list and the chain id 2
C15_ValueSet ==
    /\ out.op = "set_value"
    /\ tx.variant = "Eip1559"
    /\ tx.value = out.arg
    /\ IsSome(tx.data)
    /\ IsSome(tx.access_list)
    /\ tx.chain_id = 2

====
